---- MODULE Spec2Model ----
(***************************************************************************)
(* fast-server (src/fast-server/src/main.rs): a listener loop that spawns  *)
(* one detached connection task per accepted TCP connection; each task     *)
(* reads a request, writes a fixed header block and then streams 1 MiB     *)
(* chunks in chunked transfer encoding until its running counter reaches   *)
(* the process-wide byte budget MAX_SEND_BYTES.                            *)
(*                                                                         *)
(* Every .await of the source is one atomic step: the compio runtime is    *)
(* cooperative and single threaded, so the code between two awaits runs    *)
(* without interleaving.  The outcome of every I/O operation is chosen by  *)
(* the environment.                                                        *)
(***************************************************************************)
EXTENDS Integers, Sequences, FiniteSets, TLC

(* ---------------------------- bounds ----------------------------------- *)
\* connections the listener accepts before the model stops accepting
MaxConns == 2
\* streaming-loop iterations explored per connection; the finite budgets
\* below never need more than this many iterations
MaxChunks == 2
\* I/O failures (read, write, close) the environment injects in one run
MaxFaults == 2

(* ------------------------ program constants ---------------------------- *)
\* vec![0; 4096], the request buffer
ReadBufLen == 4096
\* headers.as_bytes().len()
HeadersLen == 111
\* b"100000\r\n".len()
SizeHeaderLen == 8
\* b"\r\n".len()
CrlfLen == 2
\* b"0\r\n\r\n".len()
FinalLen == 5
\* the hexadecimal digits of the chunk-size header b"100000\r\n"
SizeHeaderDigits == <<1, 0, 0, 0, 0, 0>>
\* vec![0u8; 1024 * 1024].len()
ChunkLen == 1024 * 1024

(* --------------------------- usize values ------------------------------ *)
(* A usize (64 bits: the default budget of 32 GiB needs more than 32) does *)
(* not fit the model checker's integers, so it is kept as three limbs:     *)
(* value = top * 2^60 + hi * 2^30 + lo, with 0 <= lo, hi < 2^30 and        *)
(* 0 <= top < 16.                                                          *)
LimbBase == 1024 * 1024 * 1024
\* 2^64 = TopBase * LimbBase * LimbBase
TopBase == 16

Usize(n) == [top |-> 0, hi |-> n \div LimbBase, lo |-> n % LimbBase]

\* usize::MAX
UsizeMax == [top |-> TopBase - 1, hi |-> LimbBase - 1, lo |-> LimbBase - 1]

\* a < b on usize
UsizeLt(a, b) ==
    \/ a.top < b.top
    \/ a.top = b.top /\ a.hi < b.hi
    \/ a.top = b.top /\ a.hi = b.hi /\ a.lo < b.lo

\* a + n exceeds usize::MAX, for 0 <= n < LimbBase
UsizeOverflows(a, n) ==
    LET t == a.lo + n
        h == a.hi + (t \div LimbBase)
    IN  a.top + (h \div LimbBase) >= TopBase

\* the counter advanced by the framing bytes as well as by the payload
UsizeAdd_framed(a, n) ==
    LET t == a.lo + n + SizeHeaderLen + CrlfLen
        h == a.hi + (t \div LimbBase)
    IN  [top |-> (a.top + (h \div LimbBase)) % TopBase,
         hi |-> h % LimbBase, lo |-> t % LimbBase]

\* a + n modulo 2^64, for 0 <= n < LimbBase
UsizeAdd(a, n) ==
    LET t == a.lo + n
        h == a.hi + (t \div LimbBase)
    IN  [top |-> (a.top + (h \div LimbBase)) % TopBase,
         hi |-> h % LimbBase, lo |-> t % LimbBase]

\* AtomicUsize::new(1024 * 1024 * 1024 * 32)
DefaultMaxSendBytes == [top |-> 0, hi |-> 32, lo |-> 0]

(* ------------------------------ inputs --------------------------------- *)
Conns == 1..MaxConns

\* values of the MAX_SEND_BYTES environment variable that parse as usize
Budgets ==
    {k * ChunkLen + d : k \in 0..(MaxChunks - 1), d \in {0, 1}}
        \cup {MaxChunks * ChunkLen}

NoValue == -1
\* the variable is unset or does not parse (NoValue), or parses to a budget
EnvMaxSendBytes == {NoValue} \cup Budgets

\* length of the request the c-th client sends: the clients' requests
\* differ, and none is longer than the buffer
RequestLen(c) == ReadBufLen \div c

\* bytes the initial read of connection c can return: 0 (peer closed) or
\* the client's request
ReadLens(c) == {0, RequestLen(c)}

\* request[c] before the initial read has returned Ok(n)
NoRequest == -1

\* bytes a failed write_all transmitted before the error; the runs explored
\* are those in which the failing write transmitted nothing
PartialLens(full) == {0}

\* outcomes of write_all on a buffer of `full` bytes
WriteOutcomes(full) ==
    {[ok |-> TRUE, n |-> full]} \cup {[ok |-> FALSE, n |-> k] : k \in PartialLens(full)}

(* ------------------------------- state --------------------------------- *)
VARIABLES
    mainPc,          \* position of main: "dotenv","config","bind","accept","exited"
    MAX_SEND_BYTES,  \* the static AtomicUsize
    stores,          \* number of MAX_SEND_BYTES.store calls executed
    accepted,        \* connections accepted so far; they are tasks 1..accepted
    acceptErrors,    \* accept calls that returned an error
    pc,              \* pc[c]: position of connection task c
    request,         \* request[c]: n once the initial read returned Ok(n)
    sent_count,      \* sent_count[c]
    max_bytes,       \* max_bytes[c]
    payloadResult,   \* payloadResult[c]: `result` of the payload write_all
    result,          \* result[c]: how the task ended: "none","Ok","Err","Panic"
    log,             \* log[c]: the socket operations of task c after the read
    faults           \* I/O failures injected so far

vars == <<mainPc, MAX_SEND_BYTES, stores, accepted, acceptErrors, pc, request, sent_count,
          max_bytes, payloadResult, result, log, faults>>

connVars == <<pc, request, sent_count, max_bytes, payloadResult, result, log>>

mainVars == <<mainPc, MAX_SEND_BYTES, stores, accepted, acceptErrors>>

(* ------------------------------ helpers -------------------------------- *)
\* usize value of a string of hexadecimal digits, most significant first
RECURSIVE HexValue(_)
HexValue(ds) ==
    IF ds = <<>> THEN 0
    ELSE HexValue(SubSeq(ds, 1, Len(ds) - 1)) * 16 + ds[Len(ds)]

\* one socket operation as the wire saw it
Entry(op, out) == [op |-> op, ok |-> out.ok, n |-> out.n]

\* one socket shared by all tasks: the operation lands on every record
Logged_shared(c, op, out) == [d \in Conns |-> Append(log[d], Entry(op, out))]

\* the record of task c's socket gets one more operation
Logged(c, op, out) == [log EXCEPT ![c] = Append(@, Entry(op, out))]

\* the environment may fail an operation only while faults remain
MayFail(out) == out.ok \/ faults < MaxFaults

Charge(out) == IF out.ok THEN faults ELSE faults + 1

\* main has not returned: the runtime is still driving the spawned tasks
ProcessAlive == mainPc # "exited"

\* the zero-length test dropped: an empty read is served like a request
ReadIsEof_never(n) == FALSE

\* result.0? == 0
ReadIsEof(n) == n = 0

\* the comparison off by one: sent_count <= max_bytes
LoopCond_le(sent, max) == ~UsizeLt(max, sent)

\* the loop without its exit: while true
LoopCond_always(sent, max) == TRUE

\* while sent_count < max_bytes
LoopCond(sent, max) == UsizeLt(sent, max)

\* the branches swapped: the marker is written while the budget is not spent
LoopHead_swapped(sent, max) == IF UsizeLt(sent, max) THEN "final" ELSE "size"

\* where the task goes when it evaluates the loop condition
LoopHead(sent, max) == IF LoopCond(sent, max) THEN "size" ELSE "final"

\* number of operations `op` in a log
CountOp(l, op) == Cardinality({i \in 1..Len(l) : l[i].op = op})

(* ------------------------------- Init ---------------------------------- *)
Init ==
    /\ mainPc = "dotenv"
    /\ MAX_SEND_BYTES = DefaultMaxSendBytes
    /\ stores = 0
    /\ accepted = 0
    /\ acceptErrors = 0
    /\ pc = [c \in Conns |-> "unspawned"]
    /\ request = [c \in Conns |-> NoRequest]
    /\ sent_count = [c \in Conns |-> Usize(0)]
    /\ max_bytes = [c \in Conns |-> Usize(0)]
    /\ payloadResult = [c \in Conns |-> "none"]
    /\ result = [c \in Conns |-> "none"]
    /\ log = [c \in Conns |-> <<>>]
    /\ faults = 0

(* ------------------------------- main ---------------------------------- *)
\* dotenvy::dotenv()?
MainDotenv ==
    /\ mainPc = "dotenv"
    /\ \E ok \in BOOLEAN : mainPc' = IF ok THEN "config" ELSE "exited"
    /\ UNCHANGED <<MAX_SEND_BYTES, stores, accepted, acceptErrors, connVars, faults>>

\* the port and the byte budget are read from the environment
MainConfig ==
    /\ mainPc = "config"
    /\ \E bytes \in EnvMaxSendBytes :
          IF bytes # NoValue
          THEN MAX_SEND_BYTES' = Usize(bytes) /\ stores' = stores + 1
          ELSE UNCHANGED <<MAX_SEND_BYTES, stores>>
    /\ mainPc' = "bind"
    /\ UNCHANGED <<accepted, acceptErrors, connVars, faults>>

\* TcpListener::bind(..).await?
MainBind ==
    /\ mainPc = "bind"
    /\ \E ok \in BOOLEAN : mainPc' = IF ok THEN "accept" ELSE "exited"
    /\ UNCHANGED <<MAX_SEND_BYTES, stores, accepted, acceptErrors, connVars, faults>>

\* the listener awaiting each spawned task before it accepts again
AcceptReady_joined ==
    mainPc = "accept" /\ \A c \in Conns : pc[c] \in {"unspawned", "done"}

\* the listener is at listener.accept().await; it awaits no spawned task
AcceptReady == mainPc = "accept"

\* the budget read from the environment again at every accept
MainAccept_reload ==
    /\ AcceptReady
    /\ accepted < MaxConns
    /\ accepted' = accepted + 1
    /\ pc' = [pc EXCEPT ![accepted + 1] = "read"]
    /\ \E bytes \in Budgets : MAX_SEND_BYTES' = Usize(bytes)
    /\ stores' = stores + 1
    /\ UNCHANGED <<mainPc, acceptErrors, request, sent_count, max_bytes,
                   payloadResult, result, log, faults>>

\* accept succeeds: spawn(handle_client(stream)).detach(), back to accept
MainAccept ==
    /\ AcceptReady
    /\ accepted < MaxConns
    /\ accepted' = accepted + 1
    /\ pc' = [pc EXCEPT ![accepted + 1] = "read"]
    /\ UNCHANGED <<mainPc, MAX_SEND_BYTES, stores, acceptErrors, request,
                   sent_count, max_bytes, payloadResult, result, log, faults>>

\* the error of accept dropped and the call tried again
MainAcceptFail_retry ==
    /\ AcceptReady
    /\ acceptErrors' = acceptErrors + 1
    /\ UNCHANGED <<mainPc, MAX_SEND_BYTES, stores, accepted, connVars, faults>>

\* accept fails: `?` returns the error from main
MainAcceptFail ==
    /\ AcceptReady
    /\ acceptErrors' = acceptErrors + 1
    /\ mainPc' = "exited"
    /\ UNCHANGED <<MAX_SEND_BYTES, stores, accepted, connVars, faults>>

(* --------------------------- handle_client ----------------------------- *)
\* the task returns r
Return(c, r) ==
    /\ pc' = [pc EXCEPT ![c] = "done"]
    /\ result' = [result EXCEPT ![c] = r]

\* stream.read(buf).await; result.0? == 0
Read(c) ==
    /\ ProcessAlive
    /\ pc[c] = "read"
    /\ \/ /\ faults < MaxFaults
          /\ faults' = faults + 1
          /\ Return(c, "Err")
          /\ UNCHANGED request
       \/ \E n \in ReadLens(c) :
             /\ request' = [request EXCEPT ![c] = n]
             /\ IF ReadIsEof(n)
                THEN Return(c, "Ok")
                ELSE pc' = [pc EXCEPT ![c] = "headers"] /\ UNCHANGED result
             /\ UNCHANGED faults
    /\ UNCHANGED <<mainVars, sent_count, max_bytes, payloadResult, log>>

\* a header block that echoes the request: its length follows the request
WriteHeaders_echo(c) ==
    /\ ProcessAlive
    /\ pc[c] = "headers"
    /\ \E out \in WriteOutcomes(HeadersLen + request[c]) :
          /\ MayFail(out)
          /\ faults' = Charge(out)
          /\ log' = Logged(c, "headers", out)
          /\ IF out.ok
             THEN /\ sent_count' = [sent_count EXCEPT ![c] = Usize(0)]
                  /\ max_bytes' = [max_bytes EXCEPT ![c] = MAX_SEND_BYTES]
                  /\ pc' = [pc EXCEPT ![c] = LoopHead(Usize(0), MAX_SEND_BYTES)]
                  /\ UNCHANGED result
             ELSE /\ Return(c, "Err")
                  /\ UNCHANGED <<sent_count, max_bytes>>
    /\ UNCHANGED <<mainVars, request, payloadResult>>

\* stream.write_all(headers).await.0?; set_nodelay; sent_count = 0;
\* max_bytes = MAX_SEND_BYTES.load(); first evaluation of the loop condition
WriteHeaders(c) ==
    /\ ProcessAlive
    /\ pc[c] = "headers"
    /\ \E out \in WriteOutcomes(HeadersLen) :
          /\ MayFail(out)
          /\ faults' = Charge(out)
          /\ log' = Logged(c, "headers", out)
          /\ IF out.ok
             THEN /\ sent_count' = [sent_count EXCEPT ![c] = Usize(0)]
                  /\ max_bytes' = [max_bytes EXCEPT ![c] = MAX_SEND_BYTES]
                  /\ pc' = [pc EXCEPT ![c] = LoopHead(Usize(0), MAX_SEND_BYTES)]
                  /\ UNCHANGED result
             ELSE /\ Return(c, "Err")
                  /\ UNCHANGED <<sent_count, max_bytes>>
    /\ UNCHANGED <<mainVars, request, payloadResult>>

\* stream.write_all(b"100000\r\n").await.0?
WriteSize(c) ==
    /\ ProcessAlive
    /\ pc[c] = "size"
    /\ CountOp(log[c], "size") < MaxChunks
    /\ \E out \in WriteOutcomes(SizeHeaderLen) :
          /\ MayFail(out)
          /\ faults' = Charge(out)
          /\ log' = Logged(c, "size", out)
          /\ IF out.ok
             THEN pc' = [pc EXCEPT ![c] = "payload"] /\ UNCHANGED result
             ELSE Return(c, "Err")
    /\ UNCHANGED <<mainVars, request, sent_count, max_bytes, payloadResult>>

\* let BufResult(result, c) = stream.write_all(chunk).await; chunk = c
WritePayload(c) ==
    /\ ProcessAlive
    /\ pc[c] = "payload"
    /\ \E out \in WriteOutcomes(ChunkLen) :
          /\ MayFail(out)
          /\ faults' = Charge(out)
          /\ log' = Logged(c, "payload", out)
          /\ payloadResult' = [payloadResult EXCEPT ![c] = IF out.ok THEN "Ok" ELSE "Err"]
    /\ pc' = [pc EXCEPT ![c] = "crlf"]
    /\ UNCHANGED <<mainVars, request, sent_count, max_bytes, result>>

\* _ = stream.write_all(b"\r\n").await.0; match result { Ok => sent_count +=
\* chunk.len(), Err => close }; then the loop condition again.  When the
\* addition overflows, a build with overflow checks (the dev profile) panics
\* and a build without them (the release profile) wraps around.
WriteCrlf(c) ==
    /\ ProcessAlive
    /\ pc[c] = "crlf"
    /\ \E out \in WriteOutcomes(CrlfLen) :
          /\ MayFail(out)
          /\ faults' = Charge(out)
          /\ log' = Logged(c, "crlf", out)
    /\ IF payloadResult[c] = "Ok"
       THEN \/ /\ UsizeOverflows(sent_count[c], ChunkLen)
               /\ Return(c, "Panic")
               /\ UNCHANGED sent_count
            \/ /\ sent_count' = [sent_count EXCEPT ![c] = UsizeAdd(@, ChunkLen)]
               /\ pc' = [pc EXCEPT ![c] =
                           LoopHead(UsizeAdd(sent_count[c], ChunkLen), max_bytes[c])]
               /\ UNCHANGED result
       ELSE /\ pc' = [pc EXCEPT ![c] = "close"]
            /\ UNCHANGED <<sent_count, result>>
    /\ UNCHANGED <<mainVars, request, max_bytes, payloadResult>>

\* stream.close().await?; return Ok(())
Close(c) ==
    /\ ProcessAlive
    /\ pc[c] = "close"
    /\ \E ok \in BOOLEAN :
          LET out == [ok |-> ok, n |-> 0] IN
          /\ MayFail(out)
          /\ faults' = Charge(out)
          /\ log' = Logged(c, "close", out)
          /\ Return(c, IF ok THEN "Ok" ELSE "Err")
    /\ UNCHANGED <<mainVars, request, sent_count, max_bytes, payloadResult>>

\* stream.write_all(b"0\r\n\r\n").await.0?; Ok(())
WriteFinal(c) ==
    /\ ProcessAlive
    /\ pc[c] = "final"
    /\ \E out \in WriteOutcomes(FinalLen) :
          /\ MayFail(out)
          /\ faults' = Charge(out)
          /\ log' = Logged(c, "final", out)
          /\ Return(c, IF out.ok THEN "Ok" ELSE "Err")
    /\ UNCHANGED <<mainVars, request, sent_count, max_bytes, payloadResult>>

Step(c) ==
    \/ Read(c)
    \/ WriteHeaders(c)
    \/ WriteSize(c)
    \/ WritePayload(c)
    \/ WriteCrlf(c)
    \/ Close(c)
    \/ WriteFinal(c)

Next ==
    \/ MainDotenv
    \/ MainConfig
    \/ MainBind
    \/ MainAccept
    \/ MainAcceptFail
    \/ \E c \in Conns : Step(c)

Spec == Init /\ [][Next]_vars

(* ------------------------------ fairness ------------------------------ *)
\* the runtime polls every task whose I/O operation has returned, and every
\* I/O operation returns: a task that can take its next step takes it
Fairness == \A c \in Conns : WF_vars(Step(c))

SpecFair == Init /\ [][Next]_vars /\ Fairness

(* ------------------- streams close to usize::MAX ---------------------- *)
(* A counter close to 2^64 is 2^44 iterations away from a fresh connection, *)
(* beyond any exploration from Init.  SpecWide starts where such a stream   *)
(* stands after that many successful iterations: the listener is accepting, *)
(* the budget is one of the largest usize values, and task 1 is at the head *)
(* of its loop with its counter a few chunks below 2^64.  In these runs     *)
(* log[1] holds the operations of task 1 from that point on.                *)

\* 2^64 - k, for 1 <= k <= LimbBase
NearMax(k) == [top |-> TopBase - 1, hi |-> LimbBase - 1, lo |-> LimbBase - k]

\* budgets within one chunk of usize::MAX, and the last one that is not
WideBudgets == {NearMax(ChunkLen), NearMax(ChunkLen - 1), NearMax(1)}

InitWide ==
    /\ mainPc = "accept"
    /\ MAX_SEND_BYTES \in WideBudgets
    /\ stores = 1
    /\ accepted = 1
    /\ acceptErrors = 0
    /\ \E j \in 1..MaxChunks :
          /\ sent_count = [c \in Conns |-> IF c = 1 THEN NearMax(j * ChunkLen) ELSE Usize(0)]
          /\ pc = [c \in Conns |->
                     IF c = 1 THEN LoopHead(NearMax(j * ChunkLen), MAX_SEND_BYTES)
                     ELSE "unspawned"]
    /\ request = [c \in Conns |-> IF c = 1 THEN RequestLen(1) ELSE NoRequest]
    /\ max_bytes = [c \in Conns |-> IF c = 1 THEN MAX_SEND_BYTES ELSE Usize(0)]
    /\ payloadResult = [c \in Conns |-> IF c = 1 THEN "Ok" ELSE "none"]
    /\ result = [c \in Conns |-> "none"]
    /\ log = [c \in Conns |-> <<>>]
    /\ faults = 0

NextWide ==
    \/ MainAccept
    \/ MainAcceptFail
    \/ \E c \in Conns : Step(c)

SpecWide == InitWide /\ [][NextWide]_vars

(* ======================= properties of the server ===================== *)
\* every operation of a log succeeded
AllOk(l) == \A i \in 1..Len(l) : l[i].ok

\* the operations of a log, in order
Ops(l) == [i \in 1..Len(l) |-> l[i].op]

\* the initial read of c returned a non-empty request
Served(c) == request[c] > 0

\* the budget task c loaded, when it fits one limb
SmallBudget(c) == max_bytes[c].top = 0 /\ max_bytes[c].hi = 0
BudgetOf(c) == max_bytes[c].lo

\* ceil(b / ChunkLen)
CeilChunks(b) == (b + ChunkLen - 1) \div ChunkLen

\* the streaming loop of c has ended by its condition
LoopExited(c) ==
    \/ pc[c] = "final"
    \/ pc[c] = "done" /\ Len(log[c]) > 0 /\ log[c][Len(log[c])].op = "final"

\* the operations of a complete stream of k chunks
RECURSIVE ChunkOps(_)
ChunkOps(k) == IF k = 0 THEN <<>> ELSE <<"size", "payload", "crlf">> \o ChunkOps(k - 1)
StreamOps(k) == <<"headers">> \o ChunkOps(k) \o <<"final">>

\* C1: a connection with a non-empty request whose writes all succeed has
\* emitted exactly ceil(B / C) data chunks when its loop exits, and its
\* counter is then in [B, B + C); B = 0 gives no chunk, B = 2 MiB gives two.
C1_ChunkCount ==
    \A c \in Conns :
        (Served(c) /\ AllOk(log[c]) /\ LoopExited(c) /\ SmallBudget(c)) =>
            /\ CountOp(log[c], "payload") = CeilChunks(BudgetOf(c))
            /\ sent_count[c].top = 0 /\ sent_count[c].hi = 0
            /\ BudgetOf(c) <= sent_count[c].lo
            /\ sent_count[c].lo < BudgetOf(c) + ChunkLen
            /\ (BudgetOf(c) = 0 => Ops(log[c]) \in {<<"headers">>, <<"headers", "final">>})
            /\ (BudgetOf(c) = 2 * ChunkLen => CountOp(log[c], "payload") = 2)

\* a budget that is no multiple of the chunk size was streamed to its end
C1_Witness ==
    \E c \in Conns :
        /\ pc[c] = "done" /\ result[c] = "Ok" /\ AllOk(log[c])
        /\ max_bytes[c] = Usize(ChunkLen + 1)
        /\ CountOp(log[c], "payload") = 2
        /\ sent_count[c] = Usize(2 * ChunkLen)

\* task c returned Ok(()) from the end of handle_client
Completed(c) ==
    pc[c] = "done" /\ result[c] = "Ok" /\ Served(c) /\ CountOp(log[c], "close") = 0

\* C2: the terminal marker is written exactly once on a connection that
\* completes, only when the counter has reached the budget, and nothing is
\* written after it.
C2_TerminalMarker ==
    \A c \in Conns :
        /\ CountOp(log[c], "final") <= 1
        /\ \A i \in 1..Len(log[c]) : log[c][i].op = "final" => i = Len(log[c])
        /\ (pc[c] = "final" \/ CountOp(log[c], "final") = 1) =>
               ~UsizeLt(sent_count[c], max_bytes[c])
        /\ Completed(c) =>
               /\ CountOp(log[c], "final") = 1
               /\ log[c][Len(log[c])] = [op |-> "final", ok |-> TRUE, n |-> FinalLen]

\* a connection completed after streaming at least one chunk
C2_Witness ==
    \E c \in Conns :
        /\ Completed(c)
        /\ CountOp(log[c], "payload") >= 1
        /\ log[c][Len(log[c])].op = "final"

\* C3: when the initial read returns zero bytes, nothing is ever written on
\* the connection and the task ends with Ok.
C3_EmptyRead ==
    \A c \in Conns :
        request[c] = 0 => (pc[c] = "done" /\ result[c] = "Ok" /\ log[c] = <<>>)

\* a peer closed before sending anything while another was being served
C3_Witness ==
    \E c, d \in Conns :
        /\ request[c] = 0 /\ pc[c] = "done"
        /\ Served(d) /\ Len(log[d]) > 0

\* the writes of the streaming loop
LoopWrites == {"size", "payload", "crlf"}

\* every write of the connection, the close excluded
Writes == {"headers", "size", "payload", "crlf", "final"}

\* entry i of c's log is a failed write of the streaming loop
LoopFailure(c, i) == log[c][i].op \in LoopWrites /\ ~log[c][i].ok

\* the first failed write of the streaming loop of c is entry i
FirstLoopFailure(c, i) ==
    LoopFailure(c, i) /\ \A h \in 1..(i - 1) : ~LoopFailure(c, h)

\* from entry i on, every write on c's socket failed (the client is gone)
ClientGoneFrom(c, i) ==
    \A j \in i..Len(log[c]) : log[c][j].op \in Writes => ~log[c][j].ok

\* C4: when the client closes mid-stream, so that every write from some
\* point on fails, no write is attempted after the first failed write of
\* the streaming loop.
C4_NoWriteAfterFailure ==
    \A c \in Conns : \A i \in 1..Len(log[c]) :
        (FirstLoopFailure(c, i) /\ ClientGoneFrom(c, i)) =>
            \A j \in (i + 1)..Len(log[c]) : log[c][j].op \notin Writes

\* payload bytes transmitted by the entries i+1 .. j-1 of a log
RECURSIVE PayloadBytes(_, _, _)
PayloadBytes(l, i, j) ==
    IF i + 1 >= j THEN 0
    ELSE (IF l[i + 1].op = "payload" THEN l[i + 1].n ELSE 0) + PayloadBytes(l, i + 1, j)

\* entry j is the first frame terminator on the wire after entry i
NextTerminator(l, i, j) ==
    /\ i < j /\ l[j].op = "crlf" /\ l[j].ok
    /\ \A h \in (i + 1)..(j - 1) : ~(l[h].op = "crlf" /\ l[h].ok)

\* C5: for every chunk-size header on the wire, the size it declares equals
\* the payload bytes transmitted between it and the frame terminator that
\* follows it.
C5_DeclaredSize ==
    \A c \in Conns : \A i, j \in 1..Len(log[c]) :
        (log[c][i].op = "size" /\ log[c][i].ok /\ NextTerminator(log[c], i, j)) =>
            PayloadBytes(log[c], i, j) = HexValue(SizeHeaderDigits)

\* everything task c owns
ConnState(c) ==
    <<pc[c], request[c], sent_count[c], max_bytes[c], payloadResult[c],
      result[c], log[c]>>

\* a connection whose own operations all succeeded has its complete stream
OwnStream(c) ==
    (pc[c] = "done" /\ Served(c) /\ AllOk(log[c]) /\ SmallBudget(c)) =>
        /\ max_bytes[c] = MAX_SEND_BYTES
        /\ Ops(log[c]) = StreamOps(CeilChunks(BudgetOf(c)))
        /\ result[c] = "Ok"

\* C6: connections are isolated: no step changes the state of more than one
\* connection, a step of the listener other than the spawn changes none,
\* and every connection whose own writes succeed ends with its own complete
\* stream of headers, ceil(B / C) chunks and the terminal marker.
C6_Isolation ==
    [][ /\ \A c, d \in Conns :
              (c # d /\ ConnState(c)' # ConnState(c)) => ConnState(d)' = ConnState(d)
        /\ mainPc' # mainPc => \A c \in Conns : ConnState(c)' = ConnState(c)
        /\ \A c \in Conns : OwnStream(c)' ]_vars

\* one connection failed and another, on the same budget, got everything
C6_Witness ==
    \E c, d \in Conns :
        /\ c # d
        /\ pc[d] = "done" /\ result[d] = "Err" /\ Len(log[d]) >= 2
        /\ Completed(c) /\ AllOk(log[c]) /\ CountOp(log[c], "payload") = 2

\* C7: while no accept has failed, a further accept is enabled whatever the
\* running connection tasks are doing.
C7_AcceptEnabled ==
    (mainPc = "accept" /\ accepted < MaxConns) => ENABLED MainAccept

\* a second connection was accepted and served to its end while the first
\* had not even returned from its read
C7_Witness ==
    /\ mainPc = "accept"
    /\ pc[1] = "read"
    /\ Completed(2)

\* C8: the operations of a completed connection are the header block, then
\* size header, payload and terminator per chunk, then the terminal marker,
\* each of them written in full.
C8_CompletedStream ==
    \A c \in Conns :
        Completed(c) =>
            /\ AllOk(log[c])
            /\ \E k \in 0..(MaxChunks + 1) : Ops(log[c]) = StreamOps(k)

\* the task of c ended on a failed operation of the streaming loop
EndedOnLoopFailure(c) ==
    /\ pc[c] = "done" /\ Len(log[c]) > 0
    /\ log[c][Len(log[c])].op \in LoopWrites \cup {"close"}
    /\ ~log[c][Len(log[c])].ok

\* C9: a task that ends on an I/O failure inside the streaming loop returns
\* Ok, and a served task returns Err only for a failed header block.
C9_CleanExit ==
    \A c \in Conns :
        /\ EndedOnLoopFailure(c) => result[c] = "Ok"
        /\ (Served(c) /\ result[c] = "Err") =>
               (Len(log[c]) = 1 /\ log[c][1].op = "headers")

\* C10: after a failed write of the streaming loop no new iteration starts
\* and the task does not end before a close of the socket was attempted.
C10_StopAndClose ==
    \A c \in Conns : \A i \in 1..Len(log[c]) :
        LoopFailure(c, i) =>
            /\ \A j \in (i + 1)..Len(log[c]) : log[c][j].op \notin {"size", "final"}
            /\ pc[c] \notin {"size", "final"}
            /\ pc[c] = "done" => \E j \in (i + 1)..Len(log[c]) : log[c][j].op = "close"

\* task c has evaluated MAX_SEND_BYTES.load()
Loaded(c) == Len(log[c]) > 0 /\ log[c][1].ok

\* C11: the budget is stored at most once, while main is still configuring
\* and no connection task exists; no step of the listener loop or of a
\* connection task changes it, and every task loads the published value.
C11_BudgetStable ==
    [][ /\ stores' <= 1
        /\ MAX_SEND_BYTES' # MAX_SEND_BYTES =>
              (mainPc = "config" /\ accepted = 0 /\ stores = 0)
        /\ (mainPc \in {"bind", "accept", "exited"} \/ accepted > 0) =>
              (MAX_SEND_BYTES' = MAX_SEND_BYTES /\ stores' = stores)
        /\ \A c \in Conns : Loaded(c)' => max_bytes'[c] = MAX_SEND_BYTES' ]_vars

\* a budget was stored, and two tasks spawned afterwards both loaded it
C11_Witness ==
    /\ stores = 1
    /\ MAX_SEND_BYTES = Usize(ChunkLen)
    /\ \A c \in Conns : pc[c] = "done" /\ Loaded(c) /\ max_bytes[c] = Usize(ChunkLen)

\* the shorter of two lengths
Min(a, b) == IF a < b THEN a ELSE b

\* the logs l and m met the same outcomes on their first i operations
SameOutcomes(l, m, i) == \A j \in 1..i : l[j].ok = m[j].ok

\* C12: what is written does not depend on the request: two served
\* connections (their requests differ, the budget is the same) perform the
\* same operation and write the same bytes at every position up to which
\* their writes met the same outcomes, and the header block is the fixed one.
C12_RequestIndependent ==
    /\ \A c \in Conns : \A d \in Conns \ (1..c) :
           (Served(c) /\ Served(d)) =>
               \A i \in 1..Min(Len(log[c]), Len(log[d])) :
                   SameOutcomes(log[c], log[d], i - 1) =>
                       /\ log[c][i].op = log[d][i].op
                       /\ log[c][i].ok = log[d][i].ok => log[c][i].n = log[d][i].n
    /\ \A c \in Conns :
           (Served(c) /\ Len(log[c]) > 0 /\ log[c][1].ok) =>
               log[c][1] = [op |-> "headers", ok |-> TRUE, n |-> HeadersLen]

\* two clients sent different requests, met the same outcomes (a failed
\* terminator write among them) and were served the same bytes to the end
C12_Witness ==
    \E c, d \in Conns :
        /\ request[c] > 0 /\ request[d] > 0 /\ request[c] # request[d]
        /\ pc[c] = "done" /\ pc[d] = "done"
        /\ log[c] = log[d]
        /\ CountOp(log[c], "payload") = 2
        /\ ~AllOk(log[c])

\* C13: a failed accept ends the listener loop: main has returned and no
\* accept, successful or failed, follows it; a connection task that returns,
\* with Ok or with Err, leaves the listener where it was, still accepting.
C13_AcceptFatal ==
    /\ acceptErrors <= 1
    /\ acceptErrors = 1 =>
          (mainPc = "exited" /\ ~ENABLED MainAccept /\ ~ENABLED MainAcceptFail)
    /\ (mainPc = "accept" /\ \E c \in Conns : result[c] = "Err") =>
          /\ ENABLED MainAcceptFail
          /\ accepted < MaxConns => ENABLED MainAccept

\* an accept failed after one connection task had returned an error and
\* while another was running
C13_Witness ==
    /\ acceptErrors = 1
    /\ mainPc = "exited"
    /\ \E c, d \in Conns :
          result[c] = "Err" /\ pc[d] \notin {"unspawned", "done"}

\* payload writes of a log that succeeded
RECURSIVE OkPayloads(_)
OkPayloads(l) ==
    IF l = <<>> THEN 0
    ELSE OkPayloads(Tail(l)) + (IF Head(l).op = "payload" /\ Head(l).ok THEN 1 ELSE 0)

\* task c waits for the terminator write that follows a successful payload
\* write: line 61 is awaited before line 64 advances the counter
AwaitingTerminator(c) == pc[c] = "crlf" /\ payloadResult[c] = "Ok"

\* C14 as stated: in every reachable state the counter of a connection is
\* the chunk size times the number of its successful payload writes.
C14_CounterExact ==
    \A c \in Conns : sent_count[c] = Usize(ChunkLen * OkPayloads(log[c]))

\* C14 amended: the counter is the chunk size times the number of successful
\* payload writes, except while the task waits for the terminator write
\* after a successful payload write, where the last chunk is not yet
\* counted; failed payload writes and the outcomes of the size-header and
\* terminator writes never change it.
C14_CounterLags ==
    \A c \in Conns :
        sent_count[c] =
            Usize(ChunkLen * (OkPayloads(log[c]) - (IF AwaitingTerminator(c) THEN 1 ELSE 0)))

\* a connection counted one chunk, then a payload write failed, and its
\* size-header and terminator writes had both outcomes
C14_Witness ==
    \E c \in Conns :
        /\ pc[c] = "close"
        /\ OkPayloads(log[c]) = 1
        /\ CountOp(log[c], "payload") = 2
        /\ \E i \in 1..Len(log[c]) : log[c][i].op = "crlf" /\ ~log[c][i].ok
        /\ sent_count[c] = Usize(ChunkLen)

\* task c was spawned and has not ended
Running(c) == pc[c] \notin {"unspawned", "done"}

\* task c stands at the iteration bound of the exploration
AtIterationBound(c) == pc[c] = "size" /\ CountOp(log[c], "size") >= MaxChunks

\* C15: a spawned task runs on to its own termination whatever the listener
\* does: also after the listener loop has ended on a failed accept, every
\* running task can still take its next step.
C15_TasksOutliveListener ==
    \A c \in Conns :
        (acceptErrors > 0 /\ Running(c) /\ ~AtIterationBound(c)) => ENABLED Step(c)

\* C16: the terminal marker is written only on a connection on which every
\* earlier write succeeded.
C16_MarkerAfterSuccess ==
    \A c \in Conns : \A i \in 1..Len(log[c]) :
        (log[c][i].op = "final" /\ log[c][i].ok) => \A j \in 1..(i - 1) : log[c][j].ok

\* C17: for every budget, those within one chunk of usize::MAX included,
\* while every write succeeds the addition to the counter neither overflows
\* (no panic) nor wraps (the counter never decreases), and the loop is left
\* only with the counter at or above the budget.
C17_NoOverflow ==
    [][ \A c \in Conns :
           AllOk(log'[c]) =>
               /\ result'[c] # "Panic"
               /\ ~UsizeLt(sent_count'[c], sent_count[c])
               /\ pc'[c] = "final" => ~UsizeLt(sent_count'[c], max_bytes'[c]) ]_vars

\* the budget of the process is one the exploration streams to its end
BudgetWithinBound == MAX_SEND_BYTES.top = 0 /\ MAX_SEND_BYTES.hi = 0

\* task c has started no more than ceil(B / C) iterations of its loop
IterationsBounded(c) ==
    (Loaded(c) /\ SmallBudget(c)) =>
        CountOp(log[c], "size") <= CeilChunks(BudgetOf(c))

\* C18: whatever the outcomes of its read and writes, a task that is
\* scheduled fairly ends (unless the process exits first), and it starts at
\* most ceil(B / C) iterations of the streaming loop.
C18_Terminates ==
    /\ [](\A c \in Conns : IterationsBounded(c))
    /\ \A c \in Conns :
          (Running(c) /\ BudgetWithinBound) ~> (pc[c] = "done" \/ mainPc = "exited")

\* a task ended after ceil(B / C) = 2 iterations although both of its
\* terminator writes failed
C18_Witness ==
    \E c \in Conns :
        /\ pc[c] = "done"
        /\ max_bytes[c] = Usize(2 * ChunkLen)
        /\ CountOp(log[c], "size") = 2
        /\ \A i \in 1..Len(log[c]) : log[c][i].op = "crlf" => ~log[c][i].ok

====
